---- MODULE Spec2Model ----
(***************************************************************************)
(* Model of app3.py: the "Search & Summarize" handler of the judgment      *)
(* summarizer, its file cache (one JSON file per key under CACHE_DIR),     *)
(* the two search backends, the page fetch and the ollama subprocess.      *)
(*                                                                         *)
(* Every browser session runs the script in its own thread, so the         *)
(* handler is modelled as one process per session; the sessions share      *)
(* nothing but the cache directory.  A step that touches the directory or  *)
(* a file is one action, so that two sessions interleave exactly where     *)
(* the operating system lets them.                                         *)
(*                                                                         *)
(* Text is modelled by TLA+ strings.  The warning sign U+26A0 U+FE0F that  *)
(* starts the summarizer's error strings is written "(!)".  A JSON file is *)
(* written "{query,title,court,summary}": the braces and the comma stand   *)
(* for JSON's punctuation and quoting, and never occur inside a field.     *)
(***************************************************************************)
EXTENDS Naturals, Sequences, FiniteSets, TLC

VARIABLES dirExists, files, run, started

vars == <<dirExists, files, run, started>>

(* ------------------------------ bounds --------------------------------- *)

\* Handler runs started in one behaviour, over all sessions.
MaxRuns == 2

Sessions == {"s1", "s2"}

\* What the user may type into the text input (line 183).
Queries == {"", "a"}

(* ----------------------------- constants ------------------------------- *)

None == "None"

CACHE_DIR == "cache"

\* full_text[:100000], line 176
PromptBudget == 100000

Min(a, b) == IF a <= b THEN a ELSE b

(* ------------------------- string helpers ------------------------------ *)

CharAt(s, i) == SubSeq(s, i, i)

\* s[:n]
Prefix(s, n) == SubSeq(s, 1, Min(n, Len(s)))

\* s.startswith(p)
StartsWith(s, p) == Len(s) >= Len(p) /\ SubSeq(s, 1, Len(p)) = p

\* p in s
Contains(s, p) ==
    \E i \in 1..(Len(s) + 1 - Len(p)) : SubSeq(s, i, i + Len(p) - 1) = p

\* sep.join(parts)
RECURSIVE Join(_, _)
Join(parts, sep) ==
    IF parts = <<>> THEN ""
    ELSE IF Len(parts) = 1 THEN parts[1]
    ELSE parts[1] \o sep \o Join(Tail(parts), sep)

\* s.split(sep) for a one-character sep
RECURSIVE SplitFrom(_, _, _, _)
SplitFrom(s, sep, i, cur) ==
    IF i > Len(s) THEN <<cur>>
    ELSE IF CharAt(s, i) = sep THEN <<cur>> \o SplitFrom(s, sep, i + 1, "")
    ELSE SplitFrom(s, sep, i + 1, cur \o CharAt(s, i))

Split(s, sep) == SplitFrom(s, sep, 1, "")

(* --------------------------- cache key --------------------------------- *)

\* hashlib.sha256(...).hexdigest(): a digest is taken to map distinct
\* strings to distinct values, so it is written as a tag around its input.
sha256_hexdigest(s) == "sha256<" \o s \o ">"

\* os.path.join(CACHE_DIR, filename)
path_join(dir, filename) == dir \o "/" \o filename

\* A key salted per run, as the built-in hash() of a process is.
get_cache_path_salted(query, title, court) ==
    LET key == query \o "|" \o title \o "|" \o court
        salt == IF started = 1 THEN "x" ELSE "y"
        filename == sha256_hexdigest(salt \o key) \o ".json"
    IN  path_join(CACHE_DIR, filename)

get_cache_path(query, title, court) ==
    LET key == query \o "|" \o title \o "|" \o court
        filename == sha256_hexdigest(key) \o ".json"
    IN  path_join(CACHE_DIR, filename)

(* ------------------------------ JSON ----------------------------------- *)

\* json.dump({"query":..,"title":..,"court":..,"summary":..}, f, ...)
json_dump(entry) ==
    "{" \o entry.query \o "," \o entry.title \o "," \o entry.court
        \o "," \o entry.summary \o "}"

\* What load_cached_summary returns for None: a value with no keys, which
\* the handler's test, the only reader, treats as None.
NoEntry == <<>>

\* The dict of the four members read, NoEntry for any other number.
json_object(fields) ==
    IF Len(fields) # 4 THEN NoEntry
    ELSE [query |-> fields[1], title |-> fields[2],
          court |-> fields[3], summary |-> fields[4]]

\* json.load(f): the entry, or NoEntry where json.load raises.
json_load(text) ==
    IF Len(text) < 2 \/ CharAt(text, 1) # "{" \/ CharAt(text, Len(text)) # "}"
    THEN NoEntry
    ELSE LET body == SubSeq(text, 2, Len(text) - 1)
         IN  IF Contains(body, "{") \/ Contains(body, "}")
             THEN NoEntry
             ELSE json_object(Split(body, ","))

\* f.write(text) through a descriptor opened at offset 0: the bytes of the
\* file beyond the written ones stay.
Overlay(old, text) ==
    IF Len(old) > Len(text)
    THEN text \o SubSeq(old, Len(text) + 1, Len(old))
    ELSE text

(* ---------------------------- summarizer ------------------------------- *)

WARN == "(!)"

TimeoutSentinel == WARN \o " Summarization timed out."

\* What subprocess.run(["ollama", "run", model], ..., timeout=1800) can do.
ProcOutcomes ==
    { [kind |-> "exit", returncode |-> 0, stdout |-> "S1", stderr |-> ""],
      [kind |-> "exit", returncode |-> 0, stdout |-> "", stderr |-> ""],
      [kind |-> "exit", returncode |-> 1, stdout |-> "S1", stderr |-> "e"],
      [kind |-> "timeout", returncode |-> 0, stdout |-> "", stderr |-> ""],
      [kind |-> "raise", returncode |-> 0, stdout |-> "", stderr |-> "x"] }

NoProc == [kind |-> "none", returncode |-> 0, stdout |-> "", stderr |-> ""]

summarize_with_ollama(proc) ==
    CASE proc.kind = "timeout" -> TimeoutSentinel
      [] proc.kind = "raise"   -> WARN \o " Unexpected error: " \o proc.stderr
      [] proc.kind = "exit"    ->
            IF proc.returncode # 0
            THEN WARN \o " Ollama error: " \o proc.stderr
            ELSE proc.stdout

(* ------------------------------ search --------------------------------- *)

\* A response of requests.get to the search page: whether the text holds
\* "No results found", and the href of every anchor, in document order.
SearchResponses ==
    { [kind |-> "raise", banner |-> FALSE, hrefs |-> <<>>],
      [kind |-> "ok", banner |-> TRUE, hrefs |-> <<"/doc/9/">>],
      [kind |-> "ok", banner |-> FALSE, hrefs |-> <<"/search/?p=2">>],
      [kind |-> "ok", banner |-> FALSE, hrefs |-> <<"/docfragment/1/">>],
      [kind |-> "ok", banner |-> FALSE,
       hrefs |-> <<"/docfragment/1/", "/doc/1/", "/doc/3/">>] }

\* The loop of lines 80-88 over the anchors whose href starts with "/doc".
RECURSIVE collect_links(_, _)
collect_links(hrefs, links) ==
    IF hrefs = <<>> THEN links
    ELSE LET href == Head(hrefs) IN
         IF ~StartsWith(href, "/doc") THEN collect_links(Tail(hrefs), links)
         ELSE IF StartsWith(href, "/docfragment/")
              THEN collect_links(Tail(hrefs), links)
         ELSE LET full == "https://indiankanoon.org" \o href
                  more == IF \E i \in 1..Len(links) : links[i] = full
                          THEN links ELSE Append(links, full)
              IN  IF Len(more) >= 1 THEN more
                  ELSE collect_links(Tail(hrefs), more)

search_indiakanoon(res) ==
    IF res.kind = "raise" THEN <<>>
    ELSE IF res.banner \/ ~(\E i \in 1..Len(res.hrefs) :
                                Contains(res.hrefs[i], "/doc"))
    THEN <<>>
    ELSE collect_links(res.hrefs, <<>>)

\* A call of the search proxy: no key configured, a failed request, or the
\* "link" of every organic result, in order.
ProxyResponses ==
    { [kind |-> "nokey", results |-> <<>>],
      [kind |-> "raise", results |-> <<>>],
      [kind |-> "ok", results |-> <<>>],
      [kind |-> "ok", results |-> <<"https://example.org/doc/7/">>],
      [kind |-> "ok",
       results |-> <<"https://example.org/x",
                     "https://indiankanoon.org/doc/2/",
                     "https://indiankanoon.org/doc/4/">>] }

RECURSIVE collect_results(_, _)
collect_results(results, links) ==
    IF results = <<>> THEN links
    ELSE LET link == Head(results)
             more == IF Contains(link, "indiankanoon.org/doc")
                     THEN Append(links, link) ELSE links
         IN  IF Len(more) >= 1 THEN more
             ELSE collect_results(Tail(results), more)

serpapi_fallback_links(res) ==
    IF res.kind # "ok" THEN <<>> ELSE collect_results(res.results, <<>>)

(* ------------------------------- fetch --------------------------------- *)

tags == <<"Facts", "Issue", "Section", "CDiscource", "Precedent">>

TagSet == {tags[i] : i \in 1..Len(tags)}

NoParas == [tag \in TagSet |-> <<>>]

\* A response of requests.get(url): the text of the h2.docsource_main and
\* h2.doc_title elements (None when the page has none) and, per tag, the
\* stripped text of the paragraphs marked with it.  A link names one
\* judgment; the request may fail, and the page may come without its
\* heading elements or without marked paragraphs.
Judgment(url) ==
    IF url = "https://indiankanoon.org/doc/1/"
    THEN [kind |-> "ok", court |-> "d", title |-> "b|c",
          paras |-> [NoParas EXCEPT !["Facts"] = <<"f">>]]
    ELSE [kind |-> "ok", court |-> "c|d", title |-> "b",
          paras |-> [NoParas EXCEPT !["Issue"] = <<"", "i">>]]

PageResponses(url) ==
    { [kind |-> "raise", court |-> None, title |-> None, paras |-> NoParas],
      Judgment(url),
      [Judgment(url) EXCEPT !.court = None, !.title = None,
                            !.paras["Section"] = <<"s">>],
      [Judgment(url) EXCEPT !.court = None,
                            !.paras = [NoParas EXCEPT !["Facts"] = <<"">>]] }

\* The paragraphs whose stripped text is not empty (lines 146-149).
RECURSIVE non_empty(_)
non_empty(txts) ==
    IF txts = <<>> THEN <<>>
    ELSE IF Head(txts) # "" THEN <<Head(txts)>> \o non_empty(Tail(txts))
    ELSE non_empty(Tail(txts))

\* The extraction without the "if court else" and "if title else" of lines
\* 139-143: get_text on a missing element raises inside the try.
fetch_structured_case_data_unguarded(res) ==
    IF res.kind = "raise" \/ res.court = None \/ res.title = None
    THEN <<"Court Not Found", "Title Not Found", <<>>>>
    ELSE <<res.court, res.title,
           [tag \in TagSet |-> non_empty(res.paras[tag])]>>

\* <<court, title, data>>; data is a function from tags to text sequences,
\* the empty function ({}) when anything raised.
fetch_structured_case_data(res) ==
    IF res.kind = "raise"
    THEN <<"Court Not Found", "Title Not Found", <<>>>>
    ELSE <<IF res.court # None THEN res.court ELSE "Court Not Found",
           IF res.title # None THEN res.title ELSE "Title Not Found",
           [tag \in TagSet |-> non_empty(res.paras[tag])]>>

\* "if not data" in place of "if not any(data.values())": a dict with keys
\* is truthy even when every list in it is empty.
any_values_keys(data) == DOMAIN data # {}

\* any(data.values())
any_values(data) == \E tag \in DOMAIN data : data[tag] # <<>>

(* ------------------------------ prompt --------------------------------- *)

PromptHeader == "You are a legal analyst. [...] Case details:\n\n"

RECURSIVE tag_sections(_, _)
tag_sections(data, i) ==
    IF i > Len(tags) THEN <<>>
    ELSE IF tags[i] \in DOMAIN data /\ data[tags[i]] # <<>>
    THEN <<"**" \o tags[i] \o "**:\n" \o Join(data[tags[i]], "\n")>>
             \o tag_sections(data, i + 1)
    ELSE tag_sections(data, i + 1)

generate_summary_prompt(court, title, structured_data) ==
    LET sections  == <<"**Court**: " \o court, "**Title**: " \o title>>
                         \o tag_sections(structured_data, 1)
        full_text == Join(sections, "\n\n")
    IN  PromptHeader \o Prefix(full_text, PromptBudget)

(* ------------------------------- state --------------------------------- *)

\* The locals of one run of the script, as the script starts.  Besides the
\* script's own variables the record keeps what the run has observed:
\* asked    the backends queried so far,
\* primary  what search_indiakanoon returned, fallback what
\*          serpapi_fallback_links returned,
\* lookup   what the lookup met at the cache path: "absent" (no file),
\*          "corrupt" (a file, and open(), the read or json.load raised)
\*          or "entry" (json.load returned),
\* fetched  one record per call of fetch_structured_case_data: the url,
\*          whether the request and the parse went through (ok), whether
\*          the page had its title and court elements, and whether some
\*          marked paragraph of it had text,
\* proc     how the ollama process ended, calls the number of its runs.
Blank ==
    [pc |-> "idle", query |-> "", links |-> <<>>, court |-> None,
     title |-> None, data |-> <<>>, prompt |-> None, path |-> None,
     cached |-> NoEntry, summary |-> None,
     asked |-> {}, primary |-> <<>>, fallback |-> <<>>, lookup |-> "none",
     fetched |-> <<>>, proc |-> NoProc, calls |-> 0]

Terminal == {"idle", "no_query", "no_results", "no_data", "done", "crashed"}

Init ==
    /\ dirExists \in BOOLEAN
    /\ files = <<>>
    /\ run = [s \in Sessions |-> Blank]
    /\ started = 0

Goto(s, label) == run' = [run EXCEPT ![s].pc = label]

\* os.path.exists(path)
exists(path) == path \in DOMAIN files

\* open(path, "w"): the file is created, or cut to nothing.
Truncated(path) == [p \in DOMAIN files \cup {path} |-> IF p = path THEN "" ELSE files[p]]

(* ------------------------------ cache ---------------------------------- *)

\* The value load_cached_summary returns; readable is whether open() and
\* f.read() went through (they raise inside the try otherwise).
load_cached_summary(query, title, court, readable) ==
    LET path == get_cache_path(query, title, court)
    IN  IF exists(path)
        THEN IF readable THEN json_load(files[path]) ELSE NoEntry
        ELSE NoEntry

\* What a lookup at path meets.
lookup_met(path, readable) ==
    IF ~exists(path) THEN "absent"
    ELSE IF ~readable \/ DOMAIN json_load(files[path]) = {} THEN "corrupt"
    ELSE "entry"

\* cached and cached.get("summary"): an empty summary counts as a miss.
cache_hit_truthy(cached) ==
    DOMAIN cached # {} /\ "summary" \in DOMAIN cached /\ cached.summary # ""

\* cached and "summary" in cached (line 224)
cache_hit(cached) == DOMAIN cached # {} /\ "summary" \in DOMAIN cached

\* The entry with the title and the court in each other's field.
cache_entry_swapped(query, title, court, summary) ==
    [query |-> query, title |-> court, court |-> title, summary |-> summary]

\* The entry save_cached_summary serializes (lines 37-42).
cache_entry(query, title, court, summary) ==
    [query |-> query, title |-> title, court |-> court, summary |-> summary]

(* ------------------------------ handler -------------------------------- *)

\* The button is pressed with the text q in the input (lines 185-187).
Click(s, q) ==
    /\ run[s].pc \in Terminal
    /\ started < MaxRuns
    /\ started' = started + 1
    /\ run' = [run EXCEPT ![s] = [Blank EXCEPT !.query = q,
                  !.pc = IF q = "" THEN "no_query" ELSE "search"]]
    /\ UNCHANGED <<dirExists, files>>

\* The primary search without the "if not links" of line 192: the
\* fallback is queried whatever the primary returned.
SearchPrimary_unchecked(s) ==
    /\ run[s].pc = "search"
    /\ \E res \in SearchResponses :
          LET links == search_indiakanoon(res) IN
          run' = [run EXCEPT ![s].links = links,
                     ![s].asked = @ \cup {"indiakanoon"},
                     ![s].primary = links,
                     ![s].pc = "fallback"]
    /\ UNCHANGED <<dirExists, files, started>>

\* links = search_indiakanoon(query) (lines 189-192)
SearchPrimary(s) ==
    /\ run[s].pc = "search"
    /\ \E res \in SearchResponses :
          LET links == search_indiakanoon(res) IN
          run' = [run EXCEPT ![s].links = links,
                     ![s].asked = @ \cup {"indiakanoon"},
                     ![s].primary = links,
                     ![s].pc = IF links = <<>> THEN "fallback" ELSE "fetch"]
    /\ UNCHANGED <<dirExists, files, started>>

\* The fallback without the "if not links" of line 197.
SearchFallback_unchecked(s) ==
    /\ run[s].pc = "fallback"
    /\ \E res \in ProxyResponses :
          LET links == serpapi_fallback_links(res) IN
          run' = [run EXCEPT ![s].links = links,
                     ![s].asked = @ \cup {"serpapi"},
                     ![s].fallback = links,
                     ![s].pc = "fetch"]
    /\ UNCHANGED <<dirExists, files, started>>

\* links = serpapi_fallback_links(query), then "if not links" (lines 195-198)
SearchFallback(s) ==
    /\ run[s].pc = "fallback"
    /\ \E res \in ProxyResponses :
          LET links == serpapi_fallback_links(res) IN
          run' = [run EXCEPT ![s].links = links,
                     ![s].asked = @ \cup {"serpapi"},
                     ![s].fallback = links,
                     ![s].pc = IF links = <<>> THEN "no_results" ELSE "fetch"]
    /\ UNCHANGED <<dirExists, files, started>>

\* What a call of fetch_structured_case_data on url with response res
\* leaves in the record of the run.
Fetched(url, res) ==
    [url |-> url, ok |-> res.kind = "ok",
     hasTitle |-> res.title # None, hasCourt |-> res.court # None,
     hasText |-> \E tag \in TagSet :
                     \E i \in 1..Len(res.paras[tag]) : res.paras[tag][i] # ""]

\* The loop body without the empty-data check of lines 213-215.
Fetch_unchecked(s) ==
    /\ run[s].pc = "fetch"
    /\ \/ \E res \in PageResponses(run[s].links[1]) :
             LET r == fetch_structured_case_data(res) IN
             run' = [run EXCEPT ![s].court = r[1], ![s].title = r[2],
                        ![s].data = r[3],
                        ![s].fetched = Append(@, Fetched(run[s].links[1], res)),
                        ![s].prompt = generate_summary_prompt(r[1], r[2], r[3]),
                        ![s].pc = "load"]
       \/ Goto(s, "hung")
    /\ UNCHANGED <<dirExists, files, started>>

\* fetch_structured_case_data(link), the empty-data check and the prompt
\* (lines 205-217), for the one link of links.  requests.get(url, headers)
\* is given no timeout: a server that accepts the request and never
\* answers leaves the run in the call for good ("hung").
Fetch(s) ==
    /\ run[s].pc = "fetch"
    /\ \/ \E res \in PageResponses(run[s].links[1]) :
             LET r == fetch_structured_case_data(res) IN
             run' = [run EXCEPT ![s].court = r[1], ![s].title = r[2],
                        ![s].data = r[3],
                        ![s].fetched = Append(@, Fetched(run[s].links[1], res)),
                        ![s].prompt = IF any_values(r[3])
                                      THEN generate_summary_prompt(r[1], r[2], r[3])
                                      ELSE None,
                        ![s].pc = IF any_values(r[3]) THEN "load" ELSE "no_data"]
       \/ Goto(s, "hung")
    /\ UNCHANGED <<dirExists, files, started>>

\* The lookup with a load_cached_summary that has no try: what open() or
\* json.load raises ends the script.
Load_untried(s) ==
    /\ run[s].pc = "load"
    /\ \E readable \in BOOLEAN :
          LET path   == get_cache_path(run[s].query, run[s].title, run[s].court)
              cached == load_cached_summary(run[s].query, run[s].title,
                                            run[s].court, readable)
              raised == lookup_met(path, readable) = "corrupt"
          IN  run' = [run EXCEPT
                 ![s].path = path,
                 ![s].cached = cached,
                 ![s].lookup = lookup_met(path, readable),
                 ![s].summary = IF cache_hit(cached) THEN cached.summary ELSE None,
                 ![s].pc = IF raised THEN "crashed"
                           ELSE IF cache_hit(cached) THEN "display"
                           ELSE "summarize"]
    /\ UNCHANGED <<dirExists, files, started>>

\* The lookup with save_cached_summary (line 228) moved out of the else
\* branch: a hit is written back too.
Load_resave(s) ==
    /\ run[s].pc = "load"
    /\ \E readable \in BOOLEAN :
          LET path   == get_cache_path(run[s].query, run[s].title, run[s].court)
              cached == load_cached_summary(run[s].query, run[s].title,
                                            run[s].court, readable)
          IN  run' = [run EXCEPT
                 ![s].path = path,
                 ![s].cached = cached,
                 ![s].lookup = lookup_met(path, readable),
                 ![s].summary = IF cache_hit(cached) THEN cached.summary ELSE None,
                 ![s].pc = IF cache_hit(cached) THEN "save" ELSE "summarize"]
    /\ UNCHANGED <<dirExists, files, started>>

\* cached = load_cached_summary(query, title, court) and the test of
\* line 224; on a hit summary = cached["summary"].
Load(s) ==
    /\ run[s].pc = "load"
    /\ \E readable \in BOOLEAN :
          LET path   == get_cache_path(run[s].query, run[s].title, run[s].court)
              cached == load_cached_summary(run[s].query, run[s].title,
                                            run[s].court, readable)
          IN  run' = [run EXCEPT
                 ![s].path = path,
                 ![s].cached = cached,
                 ![s].lookup = lookup_met(path, readable),
                 ![s].summary = IF cache_hit(cached) THEN cached.summary ELSE None,
                 ![s].pc = IF cache_hit(cached) THEN "display" ELSE "summarize"]
    /\ UNCHANGED <<dirExists, files, started>>

\* summary = summarize_with_ollama(prompt) (line 227)
Summarize(s) ==
    /\ run[s].pc = "summarize"
    /\ \E proc \in ProcOutcomes :
          run' = [run EXCEPT ![s].proc = proc,
                     ![s].summary = summarize_with_ollama(proc),
                     ![s].calls = @ + 1,
                     ![s].pc = "save"]
    /\ UNCHANGED <<dirExists, files, started>>

\* save_cached_summary is entered: "if not os.path.exists(CACHE_DIR)"
SaveCheckDir(s) ==
    /\ run[s].pc = "save"
    /\ Goto(s, IF dirExists THEN "open" ELSE "makedirs")
    /\ UNCHANGED <<dirExists, files, started>>

\* os.makedirs(CACHE_DIR), outside the try: it raises FileExistsError when
\* the directory has appeared since the test, and OSError when it cannot
\* be created; either leaves save_cached_summary and the script.
MakeDirs(s) ==
    /\ run[s].pc = "makedirs"
    /\ \/ /\ ~dirExists
          /\ dirExists' = TRUE
          /\ Goto(s, "open")
       \/ /\ UNCHANGED dirExists
          /\ Goto(s, "crashed")
    /\ UNCHANGED <<files, started>>

\* path = get_cache_path(...); open(path, "w") inside the try.
OpenForWrite(s) ==
    /\ run[s].pc = "open"
    /\ LET path == get_cache_path(run[s].query, run[s].title, run[s].court) IN
       \/ /\ dirExists
          /\ files' = Truncated(path)
          /\ run' = [run EXCEPT ![s].path = path, ![s].pc = "write"]
       \/ /\ UNCHANGED files
          /\ run' = [run EXCEPT ![s].path = path, ![s].pc = "display"]
    /\ UNCHANGED <<dirExists, started>>

\* json.dump(...) and the close of the file: the text reaches the file, or
\* the write raises and nothing of it does.
WriteAndClose(s) ==
    /\ run[s].pc = "write"
    /\ \/ files' = [files EXCEPT ![run[s].path] =
                       Overlay(@, json_dump(cache_entry(run[s].query,
                           run[s].title, run[s].court, run[s].summary)))]
       \/ UNCHANGED files
    /\ Goto(s, "display")
    /\ UNCHANGED <<dirExists, started>>

\* The title, the court and the summary are shown (lines 230-232) and the
\* script ends: its locals are gone, the text input keeps the query.
Display(s) ==
    /\ run[s].pc = "display"
    /\ run' = [run EXCEPT ![s] = [Blank EXCEPT !.pc = "done",
                  !.query = run[s].query]]
    /\ UNCHANGED <<dirExists, files, started>>

\* One step of the script run of session s.
Step(s) ==
    \/ \E q \in Queries : Click(s, q)
    \/ SearchPrimary(s)
    \/ SearchFallback(s)
    \/ Fetch(s)
    \/ Load(s)
    \/ Summarize(s)
    \/ SaveCheckDir(s)
    \/ MakeDirs(s)
    \/ OpenForWrite(s)
    \/ WriteAndClose(s)
    \/ Display(s)

Next == \E s \in Sessions : Step(s)

Spec == Init /\ [][Next]_vars

(* ------------------------------ claims --------------------------------- *)

Triple(s) == <<run[s].query, run[s].title, run[s].court>>

\* The strings summarize_with_ollama can return.
Summaries == {summarize_with_ollama(proc) : proc \in ProcOutcomes}

\* A result of the summarizer that carries the error marker.
IsSentinel(text) == StartsWith(text, WARN)

Backends == {"indiakanoon", "serpapi"}

\* C1 (as claimed): no file of the cache store holds an entry whose summary
\* is one of the summarizer's error sentinels.
C1_NoSentinelCached ==
    \A p \in DOMAIN files :
        LET entry == json_load(files[p])
        IN  cache_hit(entry) => ~IsSentinel(entry.summary)

\* C2: when the file at a run's cache path holds what an earlier run of
\* the same query, title and court saved (the serialized entry, with that
\* run's summary) and the lookup reads it, the lookup takes the run straight
\* to the display with that summary and no call of the summarizer; and a
\* run at the display after such a lookup has called the summarizer zero
\* times.
C2_HitStep ==
    \A s \in Sessions : \A summary \in Summaries :
        LET path == get_cache_path(run[s].query, run[s].title, run[s].court) IN
        (/\ run[s].pc = "load" /\ run'[s].pc # "load"
         /\ run'[s].lookup = "entry"
         /\ files[path] = json_dump(cache_entry(run[s].query, run[s].title,
                                                run[s].court, summary)))
        => /\ run'[s].pc = "display"
           /\ run'[s].summary = summary
           /\ run'[s].calls = 0

C2_HitState ==
    \A s \in Sessions :
        run[s].lookup = "entry"
        => (run[s].pc = "display" /\ run[s].calls = 0
               /\ run[s].summary = run[s].cached.summary)

C2_SecondRunIdempotent == []C2_HitState /\ [][C2_HitStep]_vars

\* C2 happens: a run is at the display on a hit of the entry that holds its
\* own query, title and court, the summarizer never called.
C2_Witness ==
    \E s \in Sessions :
        /\ run[s].pc = "display"
        /\ run[s].lookup = "entry"
        /\ run[s].calls = 0
        /\ run[s].cached = cache_entry(run[s].query, run[s].title,
                                       run[s].court, run[s].summary)
        /\ run[s].path \in DOMAIN files
        /\ files[run[s].path] = json_dump(run[s].cached)

\* C3: a run in which both backends were asked and both returned no
\* reference is in the no-results outcome, having fetched nothing, called
\* the summarizer never and touched no cache path; and no step of a run
\* that has not resolved a reference changes the cache store.
C3_NoResultsState ==
    \A s \in Sessions :
        (run[s].asked = Backends /\ run[s].primary = <<>> /\ run[s].fallback = <<>>)
        => /\ run[s].pc = "no_results"
           /\ run[s].court = None /\ run[s].title = None
           /\ run[s].calls = 0
           /\ run[s].path = None /\ run[s].lookup = "none"

C3_NoResultsStep ==
    \A s \in Sessions :
        (run'[s] # run[s] /\ run'[s].pc \in {"search", "fallback", "no_results"})
        => (files' = files /\ dirExists' = dirExists)

C3_NoResultsNoWork == []C3_NoResultsState /\ [][C3_NoResultsStep]_vars

\* C3 happens: a run has ended with no results while the cache store holds
\* a file another run wrote.
C3_Witness ==
    \E s \in Sessions :
        /\ run[s].pc = "no_results"
        /\ run[s].asked = Backends
        /\ DOMAIN files # {}

\* C4 (as claimed): a run whose primary search returned nothing, whose
\* fallback returned a reference, whose fetch recovered non-empty sections
\* and whose summarizer succeeded works on the fallback's reference and
\* does not end in an exception.
C4_FallbackReachesDone ==
    \A s \in Sessions :
        (/\ run[s].primary = <<>> /\ run[s].fallback # <<>>
         /\ any_values(run[s].data)
         /\ run[s].proc.kind = "exit" /\ run[s].proc.returncode = 0
         /\ run[s].proc.stdout # "")
        => (run[s].links = run[s].fallback /\ run[s].pc # "crashed")

\* json.load raised, or returned nothing the handler can use.
IsNoEntry(entry) == DOMAIN entry = {}

\* C5: a run that found a file at its cache path which could not be read
\* or did not deserialize holds no cached entry, calls the summarizer once
\* and goes on through the save to the display; it never ends in an
\* exception.
C5_CorruptIsMiss ==
    \A s \in Sessions :
        run[s].lookup = "corrupt"
        => /\ IsNoEntry(run[s].cached)
           /\ run[s].pc \in {"summarize", "save", "open", "write", "display"}
           /\ (run[s].pc # "summarize" => run[s].calls = 1)

\* C5 happens: a run that found an undeserializable file is at the display
\* with a freshly computed summary.
C5_Witness ==
    \E s \in Sessions :
        /\ run[s].lookup = "corrupt"
        /\ run[s].pc = "display"
        /\ run[s].calls = 1
        /\ run[s].summary = summarize_with_ollama(run[s].proc)

\* C6 (as claimed): when the process ended with a non-zero status or with
\* empty output, what summarize_with_ollama returned carries the error
\* marker.
C6_FailureIsSentinel ==
    \A s \in Sessions :
        (run[s].proc.kind = "exit"
            /\ (run[s].proc.returncode # 0 \/ run[s].proc.stdout = ""))
        => IsSentinel(run[s].summary)

\* C7 (as claimed): when the process timed out, the summary is the timeout
\* sentinel and the run goes on to show it; it does not end in an
\* exception.
C7_TimeoutShown ==
    \A s \in Sessions :
        run[s].proc.kind = "timeout"
        => /\ run[s].summary = TimeoutSentinel
           /\ run[s].pc \in {"save", "makedirs", "open", "write", "display"}

\* C8 (as claimed): two runs with distinct (query, title, court) triples
\* have distinct cache paths.
C8_KeyInjective ==
    \A s, t \in Sessions :
        (run[s].path # None /\ run[t].path # None /\ Triple(s) # Triple(t))
        => run[s].path # run[t].path

\* C9: two runs with the same (query, title, court) triple have computed
\* the same cache path, whatever the cache store held and whichever run it
\* was; and the path a run computes again for the save is the one it
\* computed for the lookup.
C9_SamePathState ==
    \A s, t \in Sessions :
        (run[s].path # None /\ run[t].path # None /\ Triple(s) = Triple(t))
        => run[s].path = run[t].path

C9_SamePathStep ==
    \A s \in Sessions :
        (run[s].path # None /\ run'[s].path # None) => run'[s].path = run[s].path

C10_NoRaiseIntoHandler == \A s \in Sessions : run[s].pc # "crashed"

\* C11 (as claimed): a run that has started and has not reached a terminal
\* state can always take its next step: no call to a backend, to the
\* document server or to the summarizer holds it for ever.
C11_EveryCallReturns ==
    \A s \in Sessions : run[s].pc \notin Terminal => ENABLED Step(s)

\* C12: in a run whose primary search returned references the fallback is
\* not queried, the references of the run are the primary's, and every
\* document fetched is the primary's first reference.
C12_PrimaryWins ==
    \A s \in Sessions :
        run[s].primary # <<>> =>
            /\ "serpapi" \notin run[s].asked
            /\ run[s].fallback = <<>>
            /\ run[s].links = run[s].primary
            /\ \A i \in 1..Len(run[s].fetched) :
                   run[s].fetched[i].url = run[s].primary[1]

C12_Witness ==
    \E s \in Sessions :
        /\ run[s].primary # <<>>
        /\ run[s].pc = "load"
        /\ run[s].fetched = <<[url |-> run[s].primary[1], ok |-> TRUE,
                               hasTitle |-> TRUE, hasCourt |-> TRUE,
                               hasText |-> TRUE]>>

\* Every section of the extracted data is empty.
NoUsableText(data) == \A tag \in DOMAIN data : data[tag] = <<>>

\* C13, the state part: a run whose fetch failed has ended with no data,
\* after that one fetch, with no call of the summarizer and no cache path
\* looked up or written.
C13_FailedState ==
    \A s \in Sessions :
        (run[s].fetched # <<>> /\ ~run[s].fetched[1].ok) =>
            /\ run[s].pc = "no_data"
            /\ Len(run[s].fetched) = 1
            /\ run[s].calls = 0
            /\ run[s].proc = NoProc
            /\ run[s].path = None
            /\ run[s].lookup = "none"

\* C13, the step part: the step in which a fetch fails queries no search
\* backend and leaves the cache store as it was.
C13_FailedStep ==
    \A s \in Sessions :
        (/\ run[s].pc = "fetch"
         /\ run'[s].fetched # run[s].fetched
         /\ ~run'[s].fetched[1].ok) =>
            /\ run'[s].asked = run[s].asked
            /\ run'[s].links = run[s].links
            /\ files' = files
            /\ dirExists' = dirExists

\* C13: a failed fetch ends the run: one fetch attempt, no further search,
\* no summarizer call, cache store unchanged.
C13_FailedFetchAborts == []C13_FailedState /\ [][C13_FailedStep]_vars

C13_Witness ==
    \E s \in Sessions :
        /\ run[s].pc = "no_data"
        /\ Len(run[s].fetched) = 1
        /\ ~run[s].fetched[1].ok

\* C14, the state part: a run whose page was fetched and parsed but gave
\* only empty sections has ended with no data, without a prompt, a call of
\* the summarizer or a cache path; and the summarizer has only ever been
\* called in a run with some non-empty section.
C14_EmptyState ==
    \A s \in Sessions :
        /\ (/\ run[s].fetched # <<>>
            /\ run[s].fetched[1].ok
            /\ NoUsableText(run[s].data)) =>
               /\ run[s].pc = "no_data"
               /\ run[s].prompt = None
               /\ run[s].calls = 0
               /\ run[s].path = None
        /\ (run[s].calls > 0 \/ run[s].path # None) =>
               ~NoUsableText(run[s].data)

\* C14, the step part: the step that finds the extracted data empty leaves
\* the cache store as it was.
C14_EmptyStep ==
    \A s \in Sessions :
        (/\ run[s].pc = "fetch"
         /\ run'[s].fetched # run[s].fetched
         /\ run'[s].fetched[1].ok
         /\ NoUsableText(run'[s].data)) =>
            /\ run'[s].pc = "no_data"
            /\ files' = files
            /\ dirExists' = dirExists

\* C14: when the extraction recovers no text the run ends with the
\* no-data outcome: the summarizer is not called and nothing is cached.
C14_EmptyExtractionAborts == []C14_EmptyState /\ [][C14_EmptyStep]_vars

C14_Witness ==
    \E s \in Sessions :
        /\ run[s].pc = "no_data"
        /\ run[s].fetched # <<>>
        /\ run[s].fetched[1].ok
        /\ DOMAIN run[s].data = TagSet
        /\ NoUsableText(run[s].data)

\* Some run has path open for writing: it has truncated the file and has
\* not yet written and closed it.
BeingWritten(path) ==
    \E s \in Sessions : run[s].pc = "write" /\ run[s].path = path

\* The text is one serialized entry, whole.
CompleteEntry(text) ==
    LET entry == json_load(text)
    IN  cache_hit(entry) /\ json_dump(entry) = text

\* C15 (as claimed): once the writers of a file have finished, the file
\* holds one complete entry (or nothing, where a write failed), never a
\* mixture of the texts of two writers.
C15_NoTornEntry ==
    \A p \in DOMAIN files :
        ~BeingWritten(p) => (files[p] = "" \/ CompleteEntry(files[p]))

\* The positions of a run inside save_cached_summary.
Saving == {"save", "makedirs", "open", "write"}

\* C16, the state part: a run whose lookup met a readable entry holds that
\* entry's summary, has not called the summarizer and is not saving; a run
\* that is saving is one whose own lookup missed.
C16_TrustedState ==
    \A s \in Sessions :
        /\ run[s].lookup = "entry" =>
               /\ run[s].pc = "display"
               /\ run[s].summary = run[s].cached.summary
               /\ run[s].calls = 0
        /\ run[s].pc \in Saving => run[s].lookup \in {"absent", "corrupt"}

\* C16, the step part: a lookup that reads an entry returns the summary
\* stored at the key; the steps of a run that had a hit leave the store as
\* it was; and the store changes only in a step of a run whose lookup
\* missed.
C16_TrustedStep ==
    /\ \A s \in Sessions :
           (run[s].pc = "load" /\ run'[s].lookup = "entry") =>
               /\ run'[s].summary = json_load(files[run'[s].path]).summary
               /\ files' = files
    /\ \A s \in Sessions :
           (run[s].lookup = "entry" /\ run'[s] # run[s]) =>
               (files' = files /\ dirExists' = dirExists)
    /\ (files' # files \/ dirExists' # dirExists) =>
           \E s \in Sessions :
               /\ run'[s] # run[s]
               /\ run[s].pc \in Saving
               /\ run[s].lookup \in {"absent", "corrupt"}

\* C16: a readable cached entry is trusted: a later run for its key
\* returns the stored summary and leaves the entry as it is, and only a
\* run whose own lookup missed writes to the cache.
C16_CachedIsTrusted == []C16_TrustedState /\ [][C16_TrustedStep]_vars

\* A second run, with no other run under way, has read the entry a first
\* run stored and shows its summary.
C16_Witness ==
    \E s \in Sessions :
        /\ started = MaxRuns
        /\ run[s].lookup = "entry"
        /\ run[s].pc = "display"
        /\ run[s].summary = "S1"
        /\ files[run[s].path] = json_dump(run[s].cached)
        /\ \A t \in Sessions \ {s} : run[t].pc \in Terminal

\* The instructions of the prompt followed by the heading lines for a
\* court and a title.
Headings(court, title) ==
    PromptHeader \o "**Court**: " \o court \o "\n\n**Title**: " \o title

\* C17, the state part: in a run whose page was fetched and parsed, a
\* missing title or court is its not-found sentinel; and when some marked
\* paragraph had text the run has gone on, its prompt opens with the
\* court and the title of the run, and the cache path it uses is the one
\* computed from them.
C17_ExtractedState ==
    \A s \in Sessions :
        (run[s].fetched # <<>> /\ run[s].fetched[1].ok) =>
            /\ ~run[s].fetched[1].hasTitle => run[s].title = "Title Not Found"
            /\ ~run[s].fetched[1].hasCourt => run[s].court = "Court Not Found"
            /\ run[s].fetched[1].hasText =>
                   /\ run[s].pc \in {"load", "summarize", "display", "crashed"}
                                        \cup Saving
                   /\ run[s].prompt # None
                   /\ StartsWith(run[s].prompt,
                                 Headings(run[s].court, run[s].title))
                   /\ run[s].path # None =>
                          run[s].path = get_cache_path(run[s].query,
                                            run[s].title, run[s].court)

\* C17, the step part: the fetch of a page that parses never ends the
\* script run with an exception, and with text in some marked paragraph
\* its next position is the cache lookup.
C17_ExtractedStep ==
    \A s \in Sessions :
        (/\ run[s].pc = "fetch"
         /\ run'[s].fetched # run[s].fetched
         /\ run'[s].fetched[1].ok) =>
            /\ run'[s].pc # "crashed"
            /\ run'[s].fetched[1].hasText => run'[s].pc = "load"

\* C17: the extraction does not fail the run: a missing title or court
\* becomes its sentinel, and with a non-empty section the run goes on to
\* the cache lookup and the summarizer with the sentinels in the prompt
\* and in the cache key.
C17_ExtractionNeverFails == []C17_ExtractedState /\ [][C17_ExtractedStep]_vars

\* A page without title and court has been summarized under the key of
\* the two sentinels.
C17_Witness ==
    \E s \in Sessions :
        /\ run[s].fetched # <<>>
        /\ run[s].fetched[1].ok
        /\ ~run[s].fetched[1].hasTitle
        /\ ~run[s].fetched[1].hasCourt
        /\ run[s].calls = 1
        /\ run[s].path = get_cache_path(run[s].query, "Title Not Found",
                                        "Court Not Found")
        /\ StartsWith(run[s].prompt,
                      Headings("Court Not Found", "Title Not Found"))

\* The file at path holds no entry, or the entry of the run of session s:
\* its query, title and court are those of the run and give path as their
\* cache path, and its summary is the output of the run's one call of the
\* summarizer.
C18_EntryOf(text, path, s) ==
    \A entry \in {json_load(text)} :
        cache_hit(entry) =>
            /\ entry.query = run[s].query
            /\ entry.title = run[s].title
            /\ entry.court = run[s].court
            /\ path = get_cache_path(entry.query, entry.title, entry.court)
            /\ run[s].calls = 1
            /\ entry.summary = summarize_with_ollama(run[s].proc)

\* C18, the step part: a step that changes the store is the open or the
\* write of one run, changes only the file at that run's path, and leaves
\* there nothing (the open) or, where the text parses, the entry of that
\* run under the key of its own fields (the write).
C18_StoreStep ==
    files' # files =>
        \E s \in Sessions :
            /\ run'[s] # run[s]
            /\ run[s].pc \in {"open", "write"}
            /\ DOMAIN files' = DOMAIN files \cup {run[s].path}
            /\ \A p \in DOMAIN files \ {run[s].path} : files'[p] = files[p]
            /\ run[s].pc = "open" => files'[run[s].path] = ""
            /\ run[s].pc = "write" =>
                   C18_EntryOf(files'[run[s].path], run[s].path, s)

\* C18: the store starts without entries, and every step that changes it
\* leaves each entry stored under the key of the query, title and court
\* inside it, with the summarizer's output of the run that wrote it as
\* its summary.
C18_EntryMatchesKey == DOMAIN files = {} /\ [][C18_StoreStep]_vars

\* A run has written its entry and the file holds it whole.
C18_Witness ==
    \E s \in Sessions :
        /\ run[s].pc = "display"
        /\ run[s].calls = 1
        /\ run[s].path \in DOMAIN files
        /\ CompleteEntry(files[run[s].path])
        /\ json_load(files[run[s].path]).summary = run[s].summary
        /\ json_load(files[run[s].path]).title = "b|c"

====
